---------------------------- MODULE Spec2Model ----------------------------
(***************************************************************************)
(* iMAGE: the connection store of the client (stores/connection.ts), the   *)
(* commands it invokes on the backend, and the Remote Storage Session &    *)
(* Browsing Engine behind those commands.                                  *)
(*                                                                         *)
(* The store is JavaScript: a function runs without interruption from one  *)
(* await to the next, so every action below is one such segment.  An       *)
(* invoke() is a request in flight (c.stage = "sent") that the      *)
(* engine answers (stage = "replied"); the continuation after the await    *)
(* runs when the store takes the reply.  Replies of different invocations  *)
(* are independent promises and are taken in any order.                    *)
(***************************************************************************)
EXTENDS Integers, Sequences, FiniteSets, Bags, TLC

VARIABLES
    \* ---- the connection store (refs of useConnectionStore) ----
    isConnected, isConnecting, error, savedConfig, currentPath, files,
    isLoadingFiles, storageType, rootPath,
    localStorage,   \* the 'image-connection' item of window.localStorage
    isMediaOnly,    \* the "Photos/Videos Only" switch of the store
    calls,          \* the bag of invocations in flight
    afterDisconnect, \* history: the store's latest step was the end of a disconnect()
    \* ---- the engine (Session Manager) ----
    session,        \* the live session, or NoSession
    handles,        \* the transport handles that are open
    \* ---- the engine's serialization discipline and Thumbnail Cache ----
    req,            \* per caller: the operation it has issued and awaits, or NoReq
    queue,          \* the callers whose operation waits for the slot, in order
    running,        \* the callers whose operation executes on the transport
    waiters,        \* the callers that wait for a thumbnail another one materializes
    results,        \* per caller: the answer to its latest operation
    cache,          \* Thumbnail Cache: resolved path -> encoded bytes
    content,        \* the version of the remote files' content
    \* ---- the cards of the gallery (MediaCard.vue) ----
    file,           \* per caller: the file its card shows (props.file), or NoFile
    \* ---- the Repository Mirror Backend ----
    materialized,   \* the large objects whose real content is in the local mirror
    fetches,        \* per large object: how often it was fetched from the remote
    \* ---- the router and the views ----
    route,          \* the name of the current route
    query,          \* route.query.index of the viewer route
    formType,       \* LoginView: the storage type selected (its storageType ref)
    ec2Form,        \* LoginView: host, username and key of the EC2 form
    githubForm,     \* LoginView: repository URL, username and key of the GitHub form
    showAllParts,   \* GalleryView: the breadcrumb is expanded
    isLoading       \* GalleryView: a refresh is running

storeVars == <<isConnected, isConnecting, error, savedConfig, currentPath, files,
               isLoadingFiles, storageType, rootPath, localStorage>>
engineVars == <<session, handles>>
filterVars == <<isMediaOnly>>
queueVars == <<req, queue, running, waiters, results, cache, content>>
cardVars == <<file>>
mirrorVars == <<materialized, fetches>>
\* the state beside the store, the engine's queue and the cards
routeVars == <<route, query>>
loginVars == <<formType, ec2Form, githubForm>>
galleryVars == <<showAllParts, isLoading>>
viewVars == <<routeVars, loginVars, galleryVars>>
sideVars == <<mirrorVars, viewVars>>
vars == <<storeVars, filterVars, calls, afterDisconnect, engineVars, queueVars, cardVars,
          sideVars>>

-----------------------------------------------------------------------------
(* Bounds *)

\* entries of a files list that is assigned to the store
MaxFiles == 3

\* fetches of one large object from the remote that are counted
MaxFetches == 2

\* the depth of the remote tree of nested albums
MaxDepth == 6

\* invocations that may be in flight at once
MaxCalls == 2
\* distinct transport handles the engine can tell apart
MaxHandles == 2

\* callers that issue operations on the engine concurrently
MaxCallers == 2

HandleIds == 1..MaxHandles
Callers == 1..MaxCallers

-----------------------------------------------------------------------------
(* Values *)

Null == "null"
NullConfig == [type |-> Null]

Ec2Config ==
    [type |-> "ec2", host |-> "192.168.1.1", username |-> "ubuntu",
     pemContent |-> "PEM-KEY", port |-> 22]
GithubConfig ==
    [type |-> "github", repoUrl |-> "git@github.com:test/repo.git", username |-> "git",
     sshKeyContent |-> "SSH-KEY", branch |-> "main", localPath |-> "/tmp/repo"]
UnknownConfig == [type |-> "unknown"]
Configs == {Ec2Config, GithubConfig, UnknownConfig}

\* the private-key blobs of the configurations
KeyMaterial == {"PEM-KEY", "SSH-KEY"}

\* LoginView: the forms as the view creates them
EmptyEc2Form == [host |-> "", username |-> "", pemContent |-> ""]
DefaultGithubForm == [repoUrl |-> "", username |-> "git", sshKeyContent |-> ""]

\* A path is the sequence of its segments; '/' is the empty sequence.
Slash == <<>>
HomeDir == <<"home", "ubuntu">>
Pictures == <<"home", "ubuntu", "Pictures">>

\* The remote content tree the backends serve (the example of spec section 8).
Entries ==
    { [name |-> "home",      path |-> <<"home">>,              isDir |-> TRUE,  mimeType |-> ""],
      [name |-> "ubuntu",    path |-> HomeDir,                 isDir |-> TRUE,  mimeType |-> ""],
      [name |-> "Pictures",  path |-> Pictures,                isDir |-> TRUE,  mimeType |-> ""],
      [name |-> "notes.txt", path |-> HomeDir \o <<"notes.txt">>, isDir |-> FALSE, mimeType |-> "text/plain"],
      [name |-> "a.jpg",     path |-> Pictures \o <<"a.jpg">>,    isDir |-> FALSE, mimeType |-> "image/jpeg"],
      [name |-> "v.mp4",     path |-> Pictures \o <<"v.mp4">>,    isDir |-> FALSE, mimeType |-> "video/mp4"] }

\* the paths the views hand to loadFiles
PathInputs == {Slash, Pictures}

\* localStorage.getItem of an item that is not there
NoItem == <<>>

\* JSON.stringify(config): the members of the object, name and value, in order
JSONStringify(config) ==
    CASE config.type = "ec2" ->
           << <<"type", config.type>>, <<"host", config.host>>,
              <<"username", config.username>>, <<"pemContent", config.pemContent>>,
              <<"port", ToString(config.port)>> >>
      [] config.type = "github" ->
           << <<"type", config.type>>, <<"repoUrl", config.repoUrl>>,
              <<"username", config.username>>, <<"sshKeyContent", config.sshKeyContent>>,
              <<"branch", config.branch>>, <<"localPath", config.localPath>> >>
      [] OTHER -> << <<"type", config.type>> >>

\* the key blob a configuration carries
KeyOf(config) ==
    CASE config.type = "ec2" -> config.pemContent
      [] config.type = "github" -> config.sshKeyContent
      [] OTHER -> ""

-----------------------------------------------------------------------------
(* The engine: Session Manager, Path Resolver, backends (spec sections 3-4) *)

NoSession == [kind |-> "none"]
IsLive(s) == s.kind # "none"

IsPrefix(p, q) == Len(p) <= Len(q) /\ SubSeq(q, 1, Len(p)) = p

\* 4.4 Path Resolver: collapse redundant separators, apply '..', refuse to climb
\* above '/'.  acc is the canonical prefix built so far.
RECURSIVE Normalize(_, _)
Normalize(p, acc) ==
    IF p = <<>> THEN [ok |-> TRUE, path |-> acc]
    ELSE IF Head(p) = ".."
         THEN IF acc = <<>> THEN [ok |-> FALSE, path |-> <<>>]
              ELSE Normalize(Tail(p), SubSeq(acc, 1, Len(acc) - 1))
    ELSE IF Head(p) \in {"", "."} THEN Normalize(Tail(p), acc)
    ELSE Normalize(Tail(p), Append(acc, Head(p)))

\* a resolver that normalizes and does not look at the root
ResolveAnywhere(root, p) == Normalize(p, <<>>)

\* 4.4: the canonical absolute form, or InvalidPath when it is not under the root
Resolve(root, p) ==
    LET n == Normalize(p, <<>>)
    IN  IF n.ok /\ IsPrefix(root, n.path) THEN n ELSE [ok |-> FALSE, path |-> <<>>]

\* 4.2 list: directories first, then name order
NameRank(name) ==
    CASE name = "a.jpg" -> 1 [] name = "home" -> 2 [] name = "notes.txt" -> 3
      [] name = "Pictures" -> 4 [] name = "ubuntu" -> 5 [] name = "v.mp4" -> 6
      [] OTHER -> 7

Before(a, b) ==
    \/ a.isDir /\ ~b.isDir
    \/ a.isDir = b.isDir /\ NameRank(a.name) < NameRank(b.name)

RECURSIVE SortEntries(_)
SortEntries(S) ==
    IF S = {} THEN <<>>
    ELSE LET m == CHOOSE x \in S : \A y \in S \ {x} : Before(x, y)
         IN  <<m>> \o SortEntries(S \ {m})

\* 4.2/4.3 list(path): one FileEntry per entry of the directory at the resolved path
Listing(p) ==
    SortEntries({e \in Entries : Len(e.path) = Len(p) + 1 /\ IsPrefix(p, e.path)})

\* 4.2/4.3 root resolution: the home directory, or the mirror's top-level directory
RootOf(kind) == IF kind = "ec2" THEN HomeDir ELSE Slash

\* 4.1 teardown: the handle of the session is closed
ClosedHandles(hs, s) == IF IsLive(s) THEN hs \ {s.handle} ELSE hs

\* a transport handle that is not open
FreshHandle(hs) == CHOOSE h \in HandleIds \ hs : \A g \in HandleIds \ hs : h <= g

\* 4.5 Content Classifier: the media kind of a MIME type
ImageMimes == {"image/jpeg", "image/png"}

\* the paths classified as images, the only ones the Thumbnail Cache holds
ImagePaths == {e.path : e \in {x \in Entries : x.mimeType \in ImageMimes}}

\* the card of MediaCard.vue shows this file
CardFile == CHOOSE e \in Entries : e.name = "a.jpg"

\* the files a card can show, and a caller that is no card
CardFiles == {e \in Entries : ~e.isDir}
NoFile == [name |-> "", path |-> <<>>, isDir |-> FALSE, mimeType |-> ""]

\* 4.6 a path without a cache entry
NoBytes == <<>>

\* 4.6 the cache is keyed by the resolved path of a file; it starts without entries
FilePaths == {e.path : e \in CardFiles}
EmptyCache == [p \in FilePaths |-> NoBytes]

\* a classifier for which every file is an image
AnyFile(p) == TRUE

\* 4.5 thumbnail is a meaningful operation only for a path classified as an image
IsThumbnailable(p) == p \in ImagePaths

\* 4.1 thumbnail: the source bytes read, decoded, resized and re-encoded
Decode(p, version) == <<p, version>>

\* caller-supplied paths with parent-traversal segments: the first leaves
\* /home/ubuntu (it is /home) but not '/', the second climbs above '/'
UpToHome == Pictures \o <<"..", "..">>
AboveSlash == <<"..">>

\* 4.3 the files the repository tracks through a large-object pointer
Pointers == {e.path : e \in {x \in Entries : x.name = "v.mp4"}}

\* 4.3 the real bytes of a file
Bytes(p) == <<"bytes", p>>

\* an operation of section 6 as a caller issues it
NoReq == [op |-> "none"]
ConnectReq(kind) == [op |-> "connect", arg |-> <<kind>>]
DisconnectReq == [op |-> "disconnect", arg |-> <<>>]
ListReq(p) == [op |-> "list", arg |-> p]
ThumbnailReq(p) == [op |-> "thumbnail", arg |-> p]

\* what the callers other than the cards ask for
SessionRequests == {ConnectReq("ec2"), ConnectReq("github"), DisconnectReq}
ListRequests == {ListReq(Pictures), ListReq(UpToHome), ListReq(AboveSlash)}

\* the answer of an operation op: its kind ("ok" or the error kind of section 6), its
\* value, how it was produced (locally, from the cache, on the transport, or by
\* waiting for another caller's materialization) and whether the transport was in
\* use by an operation when it was produced
NoResult == [kind |-> "none"]

\* route.query without an index member
NoIndex == <<>>
Answer(op, kind, value, via, busy) ==
    [op |-> op, kind |-> kind, value |-> value, via |-> via, busy |-> busy]

-----------------------------------------------------------------------------
(* The connection store (stores/connection.ts) *)

Init ==
    /\ isConnected = FALSE
    /\ isConnecting = FALSE
    /\ error = Null
    /\ savedConfig = NullConfig
    /\ currentPath = Slash
    /\ files = <<>>
    /\ isLoadingFiles = FALSE
    /\ storageType = Null
    /\ rootPath = Slash
    /\ localStorage = NoItem
    /\ isMediaOnly = FALSE
    /\ calls = EmptyBag
    /\ afterDisconnect = FALSE
    /\ session = NoSession
    /\ handles = {}
    /\ req = [c \in Callers |-> NoReq]
    /\ queue = <<>>
    /\ running = {}
    /\ waiters = {}
    /\ results = [c \in Callers |-> NoResult]
    /\ cache = EmptyCache
    /\ content = "v1"
    /\ file = [c \in Callers |-> CardFile]
    /\ materialized = {}
    /\ fetches = [p \in Pointers |-> 0]
    /\ route = "login"
    /\ query = NoIndex
    /\ formType = "ec2"
    /\ ec2Form = EmptyEc2Form
    /\ githubForm = DefaultGithubForm
    /\ showAllParts = FALSE
    /\ isLoading = FALSE

InFlight == BagToSet(calls)
Sent(c, cmd) == c.cmd = cmd /\ c.stage = "sent"
Replied(c, cmd) == c.cmd = cmd /\ c.stage = "replied"

Request(cmd, fn, config, path) ==
    [cmd |-> cmd, fn |-> fn, config |-> config, path |-> path, stage |-> "sent"]

\* invoke(cmd, args): one more request in flight
Invoke(cmd, fn, config, path) ==
    /\ BagCardinality(calls) < MaxCalls
    /\ calls' = calls (+) SetToBag({Request(cmd, fn, config, path)})

\* the promise of c settles and its continuation runs: c is in flight no more
Settle(c) == calls' = calls (-) SetToBag({c})

\* the first segment of loadFiles(path): up to the await of invoke('list_files')
LoadFilesBegin(path) ==
    /\ isLoadingFiles' = TRUE
    /\ currentPath' = path

\* connectEc2(config) / connectGithub(config) up to the await of the connect command
ConnectBegin(cmd, fn, config) ==
    /\ isConnecting' = TRUE
    /\ error' = Null
    /\ Invoke(cmd, fn, config, Slash)
    /\ UNCHANGED <<isConnected, savedConfig, currentPath, files, isLoadingFiles,
                   storageType, rootPath, localStorage, engineVars>>

connectEc2(config) == ConnectBegin("connect_ec2", "connectEc2", config)

\* a github branch that goes to the remote-filesystem command
connectGithubByEc2(config) == ConnectBegin("connect_ec2", "connectGithub", config)

connectGithub(config) == ConnectBegin("connect_github", "connectGithub", config)

\* connect(config): dispatch on config.type
connect(config) ==
    \/ config.type = "ec2" /\ connectEc2(config)
    \/ config.type = "github" /\ connectGithub(config)
    \/ /\ config.type \notin {"ec2", "github"}
       /\ error' = "Unknown storage type"
          /\ UNCHANGED <<isConnected, isConnecting, savedConfig, currentPath, files,
                      isLoadingFiles, storageType, rootPath, localStorage, calls,
                      engineVars>>

\* response.root_path || '/'
RootPathOr(response) ==
    IF response.root_path = <<>> THEN Slash ELSE response.root_path[1]

\* connectEc2 / connectGithub from the reply of the connect command on: the success
\* branch runs into loadFiles(rootPath) and waits there; the other two return false
ConnectReply(c) ==
    /\ Replied(c, "connect_ec2") \/ Replied(c, "connect_github")
    /\ LET response == c.resp
           config == c.config
       IN  \/ /\ ~response.rejected /\ response.success
              /\ isConnected' = TRUE
              /\ savedConfig' = config
              /\ storageType' = (IF c.cmd = "connect_ec2" THEN "ec2" ELSE "github")
              /\ rootPath' = RootPathOr(response)
              /\ localStorage' = JSONStringify(config)
              /\ LoadFilesBegin(RootPathOr(response))
              /\ calls' = (calls (-) SetToBag({c})) (+)
                             SetToBag({Request("list_files", c.fn, config,
                                               RootPathOr(response))})
              /\ UNCHANGED <<isConnecting, error, files>>
           \/ /\ ~response.rejected /\ ~response.success
              /\ error' = response.message
              /\ isConnected' = isConnected
              /\ isConnecting' = FALSE
              /\ Settle(c)
              /\ UNCHANGED <<savedConfig, currentPath, files, isLoadingFiles,
                             storageType, rootPath, localStorage>>
           \/ /\ response.rejected
              /\ error' = response.error
              /\ isConnected' = isConnected
              /\ isConnecting' = FALSE
              /\ Settle(c)
              /\ UNCHANGED <<savedConfig, currentPath, files, isLoadingFiles,
                             storageType, rootPath, localStorage>>
    /\ UNCHANGED engineVars

\* loadFiles(path), called by a view
loadFiles(path) ==
    /\ LoadFilesBegin(path)
    /\ Invoke("list_files", "loadFiles", NullConfig, path)
    /\ UNCHANGED <<isConnected, isConnecting, error, savedConfig, files, storageType,
                   rootPath, localStorage, engineVars>>

\* a catch block that empties the listing
NoFilesAfterFailure == <<>>

\* loadFiles' catch block sets error and nothing else: files is as it was
FilesAfterFailure == files

\* loadFiles from the reply of list_files on; when connectEc2 / connectGithub awaits
\* this loadFiles, it then returns true through its finally block
LoadFilesReply(c) ==
    /\ Replied(c, "list_files")
    /\ LET response == c.resp
       IN  \/ /\ ~response.rejected
              /\ files' = response.result
              /\ error' = error
           \/ /\ response.rejected
              /\ error' = response.error
              /\ files' = FilesAfterFailure
    /\ isLoadingFiles' = FALSE
    /\ isConnecting' = (IF c.fn \in {"loadFiles", "refreshFiles"} THEN isConnecting ELSE FALSE)
    /\ Settle(c)
    /\ UNCHANGED <<isConnected, savedConfig, currentPath, storageType, rootPath,
                   localStorage, engineVars>>

\* disconnect() up to the await of invoke('disconnect')
disconnect ==
    /\ Invoke("disconnect", "disconnect", NullConfig, Slash)
    /\ UNCHANGED <<storeVars, engineVars>>

\* disconnect() from the reply on: the try block clears the state, the catch block
\* only logs
DisconnectReply(c) ==
    /\ Replied(c, "disconnect")
    /\ \/ /\ ~c.resp.rejected
          /\ isConnected' = FALSE
          /\ files' = <<>>
          /\ currentPath' = Slash
          /\ storageType' = Null
          /\ localStorage' = NoItem
       \/ /\ c.resp.rejected
          /\ UNCHANGED <<isConnected, files, currentPath, storageType, localStorage>>
    /\ Settle(c)
    /\ UNCHANGED <<isConnecting, error, savedConfig, isLoadingFiles, rootPath,
                   engineVars>>

-----------------------------------------------------------------------------
(* The engine's commands, each taken as one step (spec sections 4.1, 6) *)

Reply(c, resp) ==
    calls' = (calls (-) SetToBag({c})) (+)
             SetToBag({[c EXCEPT !.stage = "replied"] @@ [resp |-> resp]})

Rejected(kind) == [rejected |-> TRUE, error |-> kind]

\* a connect that builds the new backend without closing the one it replaces
HandlesWithoutTeardown == handles

\* the handles open once connect has torn the prior session down
HandlesAfterTeardown == ClosedHandles(handles, session)

\* 4.1 connect: tear down any existing session, construct the backend, handshake,
\* resolve the root; on failure no session is left live
EngineConnect(c) ==
    /\ Sent(c, "connect_ec2") \/ Sent(c, "connect_github")
    /\ HandleIds \ handles # {}
    /\ LET kind == IF c.cmd = "connect_ec2" THEN "ec2" ELSE "github"
           h == FreshHandle(handles)
       IN  \/ /\ session' = [kind |-> kind, root |-> RootOf(kind), handle |-> h,
                             key |-> KeyOf(c.config)]
              /\ handles' = HandlesAfterTeardown \cup {h}
              /\ Reply(c, [rejected |-> FALSE, success |-> TRUE, message |-> "Connected",
                           storage_type |-> kind, root_path |-> <<RootOf(kind)>>])
           \/ /\ session' = NoSession
              /\ handles' = HandlesAfterTeardown
              /\ Reply(c, [rejected |-> FALSE, success |-> FALSE,
                           message |-> "Connection failed", storage_type |-> Null,
                           root_path |-> <<>>])
           \/ /\ session' = NoSession
              /\ handles' = HandlesAfterTeardown
              /\ Reply(c, Rejected("Error: Network error"))
    /\ UNCHANGED storeVars

\* connect_ec2 succeeds and its response carries no root_path (the member is
\* optional in the response the store declares): the remote reported no home
\* directory, and the engine's own root is the well-known one of the user
EngineConnectBare(c) ==
    /\ Sent(c, "connect_ec2")
    /\ HandleIds \ handles # {}
    /\ LET h == FreshHandle(handles)
       IN  /\ session' = [kind |-> "ec2", root |-> RootOf("ec2"), handle |-> h,
                          key |-> KeyOf(c.config)]
           /\ handles' = HandlesAfterTeardown \cup {h}
           /\ Reply(c, [rejected |-> FALSE, success |-> TRUE, message |-> "Connected",
                        storage_type |-> "ec2", root_path |-> <<>>])
    /\ UNCHANGED storeVars

\* 4.1 list: NoActiveSession without a session, InvalidPath from the Path Resolver,
\* else the backend's listing or its failure
EngineList(c) ==
    /\ Sent(c, "list_files")
    /\ IF ~IsLive(session) THEN Reply(c, Rejected("NoActiveSession"))
       ELSE LET r == Resolve(session.root, c.path)
            IN  IF ~r.ok THEN Reply(c, Rejected("InvalidPath"))
                ELSE \/ Reply(c, [rejected |-> FALSE, result |-> Listing(r.path)])
                     \/ Reply(c, Rejected("RemoteListFailed"))
    /\ UNCHANGED <<storeVars, engineVars>>

\* 4.1 disconnect: close the handle, zero the credential; never fails
EngineDisconnect(c) ==
    /\ Sent(c, "disconnect")
    /\ session' = NoSession
    /\ handles' = ClosedHandles(handles, session)
    /\ Reply(c, [rejected |-> FALSE])
    /\ UNCHANGED storeVars

\* the disconnect command does not get through to the engine: the promise rejects
DisconnectRejected(c) ==
    /\ Sent(c, "disconnect")
    /\ Reply(c, Rejected("Error: disconnect failed"))
    /\ UNCHANGED <<storeVars, engineVars>>

-----------------------------------------------------------------------------
(* The engine's serialization discipline (spec section 5) and the Thumbnail  *)
(* Cache (4.6): an operation arrives, is admitted (answered locally, from   *)
(* the cache, made a waiter, or queued), takes the slot, runs on the        *)
(* transport, and releases the slot with its answer.                        *)

QueueSet == {queue[i] : i \in 1..Len(queue)}
Arrived(c) == req[c] # NoReq /\ c \notin QueueSet \cup running \cup waiters
IsExclusive(c) == req[c].op \in {"connect", "disconnect"}

\* a connect or disconnect holds or waits for the exclusive lock
ExclusivePending == \E c \in QueueSet \cup running : IsExclusive(c)

\* the engine's steps leave the client's store alone
clientVars == <<storeVars, filterVars, calls, afterDisconnect>>

\* a pending-request map that never has an entry
NoInFlightFor(p) == {}

\* 9 pending-request map: the materializations of p that are queued or running
InFlightFor(p) == {c \in QueueSet \cup running : req[c] = ThumbnailReq(p)}

\* a slot that is handed out while it is held
SlotAlwaysFree == TRUE

\* 5 the serialization slot is free when no operation executes on the transport
SlotFree == running = {}

\* an operation that ends in an error and keeps the slot
HeldOnError(c) == running

\* 7 an error met while the slot is held still releases the slot
ReleasedOnError(c) == running \ {c}

\* a lookup that reads and decodes the source again
Recompute(p) == Decode(p, content)

\* 4.1 thumbnail consults the cache first: the bytes stored for p
CacheLookup(p) == cache[p]

\* a caller issues connect, disconnect or list
Submit(c, r) ==
    /\ req[c] = NoReq
    /\ req' = [req EXCEPT ![c] = r]
    /\ results' = [results EXCEPT ![c] = NoResult]
    /\ UNCHANGED <<queue, running, waiters, cache, content, engineVars, cardVars, clientVars, sideVars>>

\* MediaCard isImage: props.file.mimeType?.startsWith('image/')
isImage(c) == file[c].mimeType \in ImageMimes

\* the card's thumbnail is in place
thumbnailLoaded(c) == results[c].kind = "ok" /\ results[c].op = "thumbnail"

\* MediaCard loadThumbnail: the card of an image that has no thumbnail yet invokes
\* get_file_thumbnail for the path of its file
loadThumbnail(c) ==
    /\ ~(~isImage(c) \/ thumbnailLoaded(c))
    /\ Submit(c, ThumbnailReq(file[c].path))

\* the answer r goes to caller c, whose operation is over
Deliver(c, r) ==
    /\ results' = [results EXCEPT ![c] = r]
    /\ req' = [req EXCEPT ![c] = NoReq]

Enqueue(c) ==
    /\ queue' = Append(queue, c)
    /\ UNCHANGED <<req, results, waiters>>

Local(c, kind) ==
    /\ Deliver(c, Answer(req[c].op, kind, <<>>, "local", running # {}))
    /\ UNCHANGED <<queue, waiters>>

\* 4.1, 4.4, 4.6, 5: connect and disconnect queue for the exclusive lock; a browsing
\* operation is held back while one of them holds or awaits it, fails locally without
\* a session or on a path the Path Resolver refuses, is answered from the cache on a
\* hit, waits when its thumbnail is being materialized, and queues otherwise
Admit(c) ==
    /\ Arrived(c)
    /\ IF IsExclusive(c) THEN Enqueue(c)
       ELSE /\ ~ExclusivePending
            /\ IF ~IsLive(session) THEN Local(c, "NoActiveSession")
               ELSE LET r == Resolve(session.root, req[c].arg)
                    IN  IF ~r.ok THEN Local(c, "InvalidPath")
                        ELSE IF req[c].op = "list" THEN Enqueue(c)
                        ELSE IF ~IsThumbnailable(r.path) THEN Local(c, "NotThumbnailable")
                        ELSE IF cache[r.path] # NoBytes
                             THEN /\ Deliver(c, Answer("thumbnail", "ok", CacheLookup(r.path), "cache",
                                                    running # {}))
                                  /\ UNCHANGED <<queue, waiters>>
                        ELSE IF InFlightFor(r.path) # {}
                             THEN /\ waiters' = waiters \cup {c}
                                  /\ UNCHANGED <<req, results, queue>>
                        ELSE Enqueue(c)
    /\ UNCHANGED <<running, cache, content, engineVars, cardVars, clientVars, sideVars>>

\* 5: the operation at the head of the queue takes the slot; a connect first tears
\* down the session it replaces (4.1)
Start(c) ==
    /\ queue # <<>> /\ Head(queue) = c
    /\ SlotFree
    /\ queue' = Tail(queue)
    /\ running' = running \cup {c}
    /\ IF req[c].op = "connect"
       THEN /\ session' = NoSession
            /\ handles' = HandlesAfterTeardown
            /\ cache' = EmptyCache
       ELSE UNCHANGED <<session, handles, cache>>
    /\ UNCHANGED <<req, waiters, results, content, cardVars, clientVars, sideVars>>

\* the callers waiting for the thumbnail that c materializes
WaitingOn(c) == {w \in waiters : req[w] = req[c]}

\* the operation on the transport ends: its answer goes to its caller (and, for a
\* thumbnail, to every waiter) and the slot is released
Finish(c) ==
    /\ c \in running /\ req[c] # NoReq
    /\ CASE req[c].op = "connect" ->
              /\ HandleIds \ handles # {}
              /\ LET kind == req[c].arg[1]
                     h == FreshHandle(handles)
                 IN  \/ /\ session' = [kind |-> kind, root |-> RootOf(kind),
                                       handle |-> h, key |-> "KEY"]
                        /\ handles' = handles \cup {h}
                        /\ Deliver(c, Answer("connect", "ok", RootOf(kind), "backend", TRUE))
                        /\ running' = running \ {c}
                     \/ /\ Deliver(c, Answer("connect", "AuthFailed", <<>>, "backend", TRUE))
                        /\ running' = ReleasedOnError(c)
                        /\ UNCHANGED <<session, handles>>
              /\ UNCHANGED <<waiters, cache>>
         [] req[c].op = "disconnect" ->
              /\ session' = NoSession
              /\ handles' = ClosedHandles(handles, session)
              /\ cache' = EmptyCache
              /\ Deliver(c, Answer("disconnect", "ok", <<>>, "backend", TRUE))
              /\ running' = running \ {c}
              /\ UNCHANGED waiters
         [] req[c].op = "list" ->
              /\ \/ /\ Deliver(c, Answer("list", "ok",
                                         Listing(Resolve(session.root, req[c].arg).path),
                                         "backend", TRUE))
                    /\ running' = running \ {c}
                 \/ /\ Deliver(c, Answer("list", "RemoteListFailed", <<>>, "backend", TRUE))
                    /\ running' = ReleasedOnError(c)
              /\ UNCHANGED <<waiters, cache, session, handles>>
         [] req[c].op = "thumbnail" ->
              /\ LET p == Resolve(session.root, req[c].arg).path
                     ToAll(kind, value) ==
                         [x \in Callers |->
                             IF x = c THEN Answer("thumbnail", kind, value, "backend", TRUE)
                             ELSE IF x \in WaitingOn(c)
                                  THEN Answer("thumbnail", kind, value, "waited", TRUE)
                             ELSE results[x]]
                 IN  \/ /\ results' = ToAll("ok", Decode(p, content))
                        /\ cache' = [cache EXCEPT ![p] = Decode(p, content)]
                        /\ running' = running \ {c}
                     \/ /\ results' = ToAll("DecodeFailed", <<>>)
                        /\ cache' = cache
                        /\ running' = ReleasedOnError(c)
              /\ req' = [x \in Callers |->
                            IF x \in WaitingOn(c) \cup {c} THEN NoReq ELSE req[x]]
              /\ waiters' = waiters \ WaitingOn(c)
              /\ UNCHANGED <<session, handles>>
    /\ UNCHANGED <<queue, content, cardVars, clientVars, sideVars>>

\* a remote file is rewritten
RemoteChange ==
    /\ content' = (IF content = "v1" THEN "v2" ELSE "v1")
    /\ UNCHANGED <<req, queue, running, waiters, results, cache, engineVars, cardVars, clientVars, sideVars>>

\* Callers issuing the operations of section 6 concurrently, and the engine serving
\* them.
EngineNext ==
    \/ \E c \in Callers : \E r \in SessionRequests \cup ListRequests :
          Submit(c, r)
    \/ \E c \in Callers : loadThumbnail(c)
    \/ \E c \in Callers : Admit(c)
    \/ \E c \in Callers : Start(c)
    \/ \E c \in Callers : Finish(c)
    \/ RemoteChange

EngineSpec == Init /\ [][EngineNext]_vars

\* The operations that contend for the slot: connect and disconnect, which take it
\* exclusively, and the cards' thumbnails.
SlotRequests == {ConnectReq("ec2"), DisconnectReq}

SlotNext ==
    \/ \E c \in Callers : \E r \in SlotRequests : Submit(c, r)
    \/ \E c \in Callers : loadThumbnail(c)
    \/ \E c \in Callers : Admit(c)
    \/ \E c \in Callers : Start(c)
    \/ \E c \in Callers : Finish(c)

\* The engine takes every step it can: the operation at the head of the queue is
\* started when the slot is free, and a started one ends.
SlotSpec ==
    /\ Init /\ [][SlotNext]_vars
    /\ WF_vars(\E c \in Callers : Start(c))
    /\ WF_vars(\E c \in Callers : Finish(c))

\* a mirror that never holds the real content of a large object
NeverMaterialized(p) == FALSE

\* 4.3 the real content behind the pointer at p is in the mirror
IsMaterialized(p) == p \in materialized

\* the answer of a read goes to caller c
ReadAnswer(c, kind, value, via) ==
    results' = [results EXCEPT ![c] = Answer("read", kind, value, via, FALSE)]

\* 4.3 read(path): with the slot free the read runs on the transport and ends within
\* the step.  Under the Repository Mirror Backend a large-object pointer that is not
\* materialized is fetched from the remote first, which may fail; every other file
\* is read from the working tree (or, under the Remote Filesystem Backend, streamed).
Read(c, p) ==
    /\ req[c] = NoReq /\ SlotFree /\ ~ExclusivePending
    /\ IF ~IsLive(session)
       THEN ReadAnswer(c, "NoActiveSession", <<>>, "local") /\ UNCHANGED mirrorVars
       ELSE LET r == Resolve(session.root, p)
            IN  IF ~r.ok
                THEN ReadAnswer(c, "InvalidPath", <<>>, "local") /\ UNCHANGED mirrorVars
                ELSE IF r.path \notin FilePaths
                THEN ReadAnswer(c, "NotFound", <<>>, "backend") /\ UNCHANGED mirrorVars
                ELSE IF session.kind = "github" /\ r.path \in Pointers
                           /\ ~IsMaterialized(r.path)
                THEN /\ fetches[r.path] < MaxFetches
                     /\ \/ /\ fetches' = [fetches EXCEPT ![r.path] = @ + 1]
                           /\ materialized' = materialized \cup {r.path}
                           /\ ReadAnswer(c, "ok", Bytes(r.path), "fetched")
                        \/ /\ ReadAnswer(c, "TransferFailed", <<>>, "backend")
                           /\ UNCHANGED mirrorVars
                ELSE ReadAnswer(c, "ok", Bytes(r.path), "backend") /\ UNCHANGED mirrorVars
    /\ UNCHANGED <<req, queue, running, waiters, cache, content, engineVars, cardVars,
                   clientVars, viewVars>>

\* the paths a caller reads: the files, and a directory
ReadPaths == FilePaths \cup {Pictures}

\* Callers that connect to a repository or a remote filesystem, disconnect and read.
MirrorNext ==
    \/ \E c \in Callers : \E r \in SessionRequests : Submit(c, r)
    \/ \E c \in Callers : Admit(c)
    \/ \E c \in Callers : Start(c)
    \/ \E c \in Callers : Finish(c)
    \/ \E c \in Callers : \E p \in ReadPaths : Read(c, p)

MirrorSpec == Init /\ [][MirrorNext]_vars

\* a card for file f is created in place c: its refs start afresh
Mount(c, f) ==
    /\ req[c] = NoReq
    /\ file' = [file EXCEPT ![c] = f]
    /\ results' = [results EXCEPT ![c] = NoResult]
    /\ UNCHANGED <<req, queue, running, waiters, cache, content, engineVars, clientVars, sideVars>>

\* MediaCard onMounted: the card of an image loads its thumbnail once it is visible
onMounted(c) ==
    /\ ~(~isImage(c))
    /\ loadThumbnail(c)

\* MediaCard onUnmounted: the card is gone; place c is a caller that is no card
onUnmounted(c) ==
    /\ req[c] = NoReq
    /\ file[c] # NoFile
    /\ file' = [file EXCEPT ![c] = NoFile]
    /\ UNCHANGED <<queueVars, engineVars, clientVars, sideVars>>

\* a caller that is no card asks the engine for the thumbnail of any file
thumbnail(c, p) ==
    /\ file[c] = NoFile
    /\ Submit(c, ThumbnailReq(p))

\* The cards of a gallery, mounted and unmounted over the files of a listing, and
\* callers that invoke thumbnail directly, under sessions of the remote filesystem.
CardNext ==
    \/ \E c \in Callers : \E f \in CardFiles : Mount(c, f)
    \/ \E c \in Callers : onMounted(c)
    \/ \E c \in Callers : onUnmounted(c)
    \/ \E c \in Callers : \E p \in FilePaths : thumbnail(c, p)
    \/ \E c \in Callers : Submit(c, ConnectReq("ec2"))
    \/ \E c \in Callers : Admit(c)
    \/ \E c \in Callers : Start(c)
    \/ \E c \in Callers : Finish(c)

CardSpec == Init /\ [][CardNext]_vars

-----------------------------------------------------------------------------
(* The store's computed lists (filteredFiles, albums, mediaFiles) *)

\* a MIME string as its parts around the '/'
MimeParts(mime) ==
    CASE mime = "image/jpeg"      -> <<"image", "jpeg">>
      [] mime = "image/png"       -> <<"image", "png">>
      [] mime = "video/mp4"       -> <<"video", "mp4">>
      [] mime = "video"           -> <<"video">>
      [] mime = "application/pdf" -> <<"application", "pdf">>
      [] mime = "text/plain"      -> <<"text", "plain">>
      [] OTHER                    -> <<>>

\* mime.startsWith(type + '/')
StartsWith(mime, type) == Len(MimeParts(mime)) >= 2 /\ MimeParts(mime)[1] = type

\* the callback of filteredFiles' filter: file.mimeType || '' is the mimeType member
KeptWhenMediaOnly(f) ==
    IF f.isDir THEN TRUE
    ELSE LET mime == f.mimeType
         IN  StartsWith(mime, "image") \/ mime = "video"

filteredFiles ==
    IF ~isMediaOnly THEN files ELSE SelectSeq(files, KeptWhenMediaOnly)

\* a callback that keeps every entry
AnyEntry(f) == TRUE

IsAlbum(f) == f.isDir
IsMediaFile(f) == ~f.isDir

albums == SelectSeq(filteredFiles, IsAlbum)

mediaFiles == SelectSeq(filteredFiles, IsMediaFile)

toggleMediaOnly ==
    /\ isMediaOnly' = ~isMediaOnly
    /\ UNCHANGED <<storeVars, calls, afterDisconnect, engineVars, queueVars, cardVars, sideVars>>

\* the FileInfo values of the store's tests, and a video whose media kind is the
\* bare marker
FileInputs ==
    { [name |-> "folder",    path |-> <<"folder">>,    isDir |-> TRUE,  mimeType |-> ""],
      [name |-> "image.jpg", path |-> <<"image.jpg">>, isDir |-> FALSE, mimeType |-> "image/jpeg"],
      [name |-> "video.mp4", path |-> <<"video.mp4">>, isDir |-> FALSE, mimeType |-> "video/mp4"],
      [name |-> "clip",      path |-> <<"clip">>,      isDir |-> FALSE, mimeType |-> "video"],
      [name |-> "doc.pdf",   path |-> <<"doc.pdf">>,   isDir |-> FALSE, mimeType |-> "application/pdf"] }

FilesInputs == UNION {[1..n -> FileInputs] : n \in 0..MaxFiles}

\* store.files = [...]: a files list is assigned to the store
SetFiles(fs) ==
    /\ files' = fs
    /\ UNCHANGED <<isConnected, isConnecting, error, savedConfig, currentPath,
                   isLoadingFiles, storageType, rootPath, localStorage, filterVars,
                   calls, afterDisconnect, engineVars, queueVars, cardVars, sideVars>>

\* Files lists and the filter switch, as the store's tests set them.
FilterNext ==
    \/ \E fs \in FilesInputs : SetFiles(fs)
    \/ toggleMediaOnly

FilterSpec == Init /\ [][FilterNext]_vars

-----------------------------------------------------------------------------
(* The router (router/index.ts) *)

\* what neither the store, the engine's commands nor the views touch
restVars == <<afterDisconnect, filterVars, queueVars, cardVars, mirrorVars>>

RouteNames == {"login", "gallery", "viewer"}

\* the locations a navigation asks for: the three routes and any other path
Locations == RouteNames \cup {"unknown"}

\* meta.requiresConnection of a route
requiresConnection(name) == name \in {"gallery", "viewer"}

\* the route record a location matches: the catch-all redirects to '/'
Matched(to) == IF to \in RouteNames THEN to ELSE "login"

\* a guard that lets every navigation pass
NoGuard(to, connected) == to

\* router.beforeEach: where the guard sends a navigation to the route named to
beforeEach(to, connected) ==
    IF requiresConnection(to) /\ ~connected THEN "login"
    ELSE IF to = "login" /\ connected THEN "gallery"
    ELSE to

\* a navigation runs the guard again on the route the guard redirects to, until the
\* guard lets it pass
RECURSIVE Navigate(_, _)
Navigate(to, connected) ==
    LET target == beforeEach(Matched(to), connected)
    IN  IF target = Matched(to) THEN target ELSE Navigate(target, connected)

Digits == <<"0", "1", "2", "3", "4", "5", "6", "7", "8", "9">>

\* index.toString(): the decimal digits of a non-negative index
RECURSIVE toString(_)
toString(n) ==
    IF n < 10 THEN <<Digits[n + 1]>>
    ELSE toString(n \div 10) \o <<Digits[(n % 10) + 1]>>

NaN == -1

\* parseInt(route.query.index): NaN when the query has no index
RECURSIVE parseInt(_)
parseInt(str) ==
    IF str = <<>> THEN NaN
    ELSE LET last == CHOOSE d \in 0..9 : Digits[d + 1] = str[Len(str)]
         IN  IF Len(str) = 1 THEN last
             ELSE parseInt(SubSeq(str, 1, Len(str) - 1)) * 10 + last

\* router.push / router.replace: the navigation ends on a route, whose view is
\* created afresh when it is another one than before
Push(to, connected, index) ==
    LET target == Navigate(to, connected)
    IN  /\ route' = target
        /\ query' = (IF target = "viewer" THEN index ELSE NoIndex)
        /\ IF target = route THEN UNCHANGED <<loginVars, galleryVars>>
           ELSE /\ formType' = "ec2"
                /\ ec2Form' = EmptyEc2Form
                /\ githubForm' = DefaultGithubForm
                /\ showAllParts' = FALSE
                /\ isLoading' = FALSE

-----------------------------------------------------------------------------
(* LoginView.vue *)

\* what the user types into a text field, and the key files the user picks
HostInputs == {"", "192.168.1.1"}
UsernameInputs == {"", "ubuntu"}
RepoUrlInputs == {"", "git@github.com:test/repo.git"}
GitUsernameInputs == {"", "git"}
KeyFileInputs == {"", "KEY"}

\* btoa(content)
Btoa(text) == IF text = "" THEN "" ELSE "S0VZ"

\* a form whose check passes whatever it holds
AnyFormValid == TRUE

\* isFormValid: the && chain of the required fields of the selected form; an empty
\* string is falsy
isFormValid ==
    IF formType = "ec2"
    THEN ec2Form.host # "" /\ ec2Form.username # "" /\ ec2Form.pemContent # ""
    ELSE githubForm.repoUrl # "" /\ githubForm.username # ""
            /\ githubForm.sshKeyContent # ""

\* :disabled of the connect button
ConnectDisabled == isConnecting \/ ~isFormValid

\* @click="storageType = 'ec2'" / 'github'
SelectType(t) ==
    /\ route = "login"
    /\ formType' = t
    /\ UNCHANGED <<ec2Form, githubForm, routeVars, galleryVars>>
    /\ UNCHANGED <<storeVars, calls, engineVars, restVars>>

\* v-model of the EC2 form's host and username
InputEc2(host, username) ==
    /\ route = "login" /\ formType = "ec2"
    /\ ec2Form' = [ec2Form EXCEPT !.host = host, !.username = username]
    /\ UNCHANGED <<formType, githubForm, routeVars, galleryVars>>
    /\ UNCHANGED <<storeVars, calls, engineVars, restVars>>

\* handlePemFileChange, with the reader's onload
handlePemFileChange(text) ==
    /\ route = "login" /\ formType = "ec2"
    /\ ec2Form' = [ec2Form EXCEPT !.pemContent = Btoa(text)]
    /\ UNCHANGED <<formType, githubForm, routeVars, galleryVars>>
    /\ UNCHANGED <<storeVars, calls, engineVars, restVars>>

\* v-model of the GitHub form's repository URL and username
InputGithub(repoUrl, username) ==
    /\ route = "login" /\ formType = "github"
    /\ githubForm' = [githubForm EXCEPT !.repoUrl = repoUrl, !.username = username]
    /\ UNCHANGED <<formType, ec2Form, routeVars, galleryVars>>
    /\ UNCHANGED <<storeVars, calls, engineVars, restVars>>

\* handleSshKeyFileChange, with the reader's onload
handleSshKeyFileChange(text) ==
    /\ route = "login" /\ formType = "github"
    /\ githubForm' = [githubForm EXCEPT !.sshKeyContent = Btoa(text)]
    /\ UNCHANGED <<formType, ec2Form, routeVars, galleryVars>>
    /\ UNCHANGED <<storeVars, calls, engineVars, restVars>>

\* the config handleConnect builds from the selected form
FormConfig ==
    IF formType = "ec2"
    THEN [type |-> "ec2", host |-> ec2Form.host, username |-> ec2Form.username,
          pemContent |-> ec2Form.pemContent, port |-> 22]
    ELSE [type |-> "github", repoUrl |-> githubForm.repoUrl,
          username |-> githubForm.username,
          sshKeyContent |-> githubForm.sshKeyContent, branch |-> "main",
          localPath |-> "/tmp/image-repo"]

\* the form is submitted (the connect button is not disabled): handleConnect up to
\* the await in connect
handleConnect ==
    /\ route = "login"
    /\ ~ConnectDisabled
    /\ connect(FormConfig)
    /\ UNCHANGED <<restVars, viewVars>>

\* the saved-connection button, shown when the store has a savedConfig, is clicked:
\* useSavedConnection up to the await in connect
useSavedConnection ==
    /\ route = "login"
    /\ savedConfig # NullConfig
    /\ connect(savedConfig)
    /\ UNCHANGED <<restVars, viewVars>>

\* a connect started by the view fails: handleConnect / useSavedConnection end
\* without a navigation
ViewConnectReply(c) ==
    /\ ConnectReply(c)
    /\ UNCHANGED <<restVars, viewVars>>

\* a loadFiles ends; when it is the one a connect awaits, connect returns true and
\* handleConnect / useSavedConnection go on to router.push('/gallery'); when it is
\* the one refreshFiles awaits, refreshFiles resets the view's isLoading
ViewLoadFilesReply(c) ==
    /\ LoadFilesReply(c)
    /\ IF c.fn \in {"connectEc2", "connectGithub"} THEN Push("gallery", isConnected, NoIndex)
       ELSE IF c.fn = "refreshFiles"
            THEN isLoading' = FALSE /\ UNCHANGED <<routeVars, loginVars, showAllParts>>
       ELSE UNCHANGED viewVars
    /\ UNCHANGED restVars

\* handleLogout up to the await in disconnect
handleLogout ==
    /\ route = "gallery"
    /\ disconnect
    /\ UNCHANGED <<restVars, viewVars>>

\* handleLogout from the end of disconnect() on: router.push('/')
LogoutReply(c) ==
    /\ DisconnectReply(c)
    /\ Push("login", isConnected', NoIndex)
    /\ UNCHANGED restVars

\* The login form, filled in and submitted, and the connect it starts.
FormNext ==
    \/ \E t \in {"ec2", "github"} : SelectType(t)
    \/ \E h \in HostInputs : \E u \in UsernameInputs : InputEc2(h, u)
    \/ \E k \in KeyFileInputs : handlePemFileChange(k)
    \/ \E r \in RepoUrlInputs : \E u \in GitUsernameInputs : InputGithub(r, u)
    \/ \E k \in KeyFileInputs : handleSshKeyFileChange(k)
    \/ handleConnect
    \/ \E c \in InFlight : EngineConnect(c) /\ UNCHANGED <<restVars, viewVars>>
    \/ \E c \in InFlight : ViewConnectReply(c)
    \/ \E c \in InFlight : EngineList(c) /\ UNCHANGED <<restVars, viewVars>>
    \/ \E c \in InFlight : ViewLoadFilesReply(c)
    \/ handleLogout
    \/ \E c \in InFlight : EngineDisconnect(c) /\ UNCHANGED <<restVars, viewVars>>
    \/ \E c \in InFlight : LogoutReply(c)

FormSpec == Init /\ [][FormNext]_vars

\* The login view with its saved-connection button, over logins and logouts.
LoginNext ==
    \/ \E h \in HostInputs : \E u \in UsernameInputs : InputEc2(h, u)
    \/ \E k \in KeyFileInputs : handlePemFileChange(k)
    \/ handleConnect
    \/ useSavedConnection
    \/ \E c \in InFlight : EngineConnect(c) /\ UNCHANGED <<restVars, viewVars>>
    \/ \E c \in InFlight : ViewConnectReply(c)
    \/ \E c \in InFlight : EngineList(c) /\ UNCHANGED <<restVars, viewVars>>
    \/ \E c \in InFlight : ViewLoadFilesReply(c)
    \/ handleLogout
    \/ \E c \in InFlight : EngineDisconnect(c) /\ UNCHANGED <<restVars, viewVars>>
    \/ \E c \in InFlight : LogoutReply(c)

LoginSpec == Init /\ [][LoginNext]_vars

\* a navigation from outside the views: a location is entered or a link followed
Go(to) ==
    /\ Push(to, isConnected, NoIndex)
    /\ UNCHANGED <<storeVars, calls, engineVars, restVars>>

\* Navigations to every location, over logins and logouts.
RouteNext ==
    \/ \E to \in Locations : Go(to)
    \/ \E h \in HostInputs : \E u \in UsernameInputs : InputEc2(h, u)
    \/ \E k \in KeyFileInputs : handlePemFileChange(k)
    \/ handleConnect
    \/ \E c \in InFlight : EngineConnect(c) /\ UNCHANGED <<restVars, viewVars>>
    \/ \E c \in InFlight : ViewConnectReply(c)
    \/ \E c \in InFlight : EngineList(c) /\ UNCHANGED <<restVars, viewVars>>
    \/ \E c \in InFlight : ViewLoadFilesReply(c)
    \/ handleLogout
    \/ \E c \in InFlight : EngineDisconnect(c) /\ UNCHANGED <<restVars, viewVars>>
    \/ \E c \in InFlight : LogoutReply(c)

RouteSpec == Init /\ [][RouteNext]_vars

\* Logins and logouts, where the disconnect command may not get through.
LogoutNext ==
    \/ \E h \in HostInputs : \E u \in UsernameInputs : InputEc2(h, u)
    \/ \E k \in KeyFileInputs : handlePemFileChange(k)
    \/ handleConnect
    \/ \E c \in InFlight : EngineConnect(c) /\ UNCHANGED <<restVars, viewVars>>
    \/ \E c \in InFlight : ViewConnectReply(c)
    \/ \E c \in InFlight : EngineList(c) /\ UNCHANGED <<restVars, viewVars>>
    \/ \E c \in InFlight : ViewLoadFilesReply(c)
    \/ handleLogout
    \/ \E c \in InFlight : EngineDisconnect(c) /\ UNCHANGED <<restVars, viewVars>>
    \/ \E c \in InFlight : DisconnectRejected(c) /\ UNCHANGED <<restVars, viewVars>>
    \/ \E c \in InFlight : LogoutReply(c)

LogoutSpec == Init /\ [][LogoutNext]_vars

-----------------------------------------------------------------------------
(* GalleryView.vue *)

\* A remote tree of nested albums below the home directory: one directory per level
AlbumName(level) ==
    CASE level = 1 -> "home"  [] level = 2 -> "ubuntu" [] level = 3 -> "Pictures"
      [] level = 4 -> "2024"  [] level = 5 -> "trip"   [] level = 6 -> "day1"
      [] level = 7 -> "raw"   [] OTHER -> "more"

AlbumPath(depth) == [level \in 1..depth |-> AlbumName(level)]

\* 4.2 list(path) on that tree: the album below p, as a directory entry
AlbumListing(p) ==
    IF Len(p) < MaxDepth
    THEN << [name |-> AlbumName(Len(p) + 1), path |-> AlbumPath(Len(p) + 1),
             isDir |-> TRUE, mimeType |-> ""] >>
    ELSE <<>>

\* 4.1 list: as EngineList, over the tree of nested albums
EngineListAlbums(c) ==
    /\ Sent(c, "list_files")
    /\ IF ~IsLive(session) THEN Reply(c, Rejected("NoActiveSession"))
       ELSE LET r == Resolve(session.root, c.path)
            IN  IF ~r.ok THEN Reply(c, Rejected("InvalidPath"))
                ELSE IF r.path # AlbumPath(Len(r.path)) THEN Reply(c, Rejected("NotFound"))
                ELSE \/ Reply(c, [rejected |-> FALSE, result |-> AlbumListing(r.path)])
                     \/ Reply(c, Rejected("RemoteListFailed"))
    /\ UNCHANGED <<storeVars, engineVars>>

maxVisibleParts == 4

\* currentPath.split('/').filter(Boolean): the non-empty segments
NonEmptySegment(part) == part # ""
currentPathParts == SelectSeq(currentPath, NonEmptySegment)

hasHiddenParts == Len(currentPathParts) > maxVisibleParts /\ ~showAllParts

\* parts.slice(-maxVisibleParts)
LastParts(parts, n) ==
    IF Len(parts) <= n THEN parts ELSE SubSeq(parts, Len(parts) - n + 1, Len(parts))

visiblePathParts ==
    IF showAllParts \/ Len(currentPathParts) <= maxVisibleParts
    THEN currentPathParts
    ELSE LastParts(currentPathParts, maxVisibleParts)

\* the view calls connectionStore.loadFiles(path) (and does not await it), then
\* collapses the breadcrumb
GalleryLoad(path) ==
    /\ route = "gallery"
    /\ loadFiles(path)
    /\ showAllParts' = FALSE
    /\ UNCHANGED <<routeVars, loginVars, isLoading, restVars>>

goToRoot == GalleryLoad(rootPath)

\* a breadcrumb index taken as it is, hidden segments or not
IndexAsClicked(index) == index

\* navigateToPath: the index in currentPathParts of the segment shown at index
actualIndex(index) ==
    IF hasHiddenParts THEN Len(currentPathParts) - maxVisibleParts + index ELSE index

\* navigateToPath(index), index counted from 0: '/' + parts.slice(0, actualIndex + 1)
navigateToPath(index) ==
    /\ index \in 0..(Len(visiblePathParts) - 1)
    /\ GalleryLoad(SubSeq(currentPathParts, 1, actualIndex(index) + 1))

\* openAlbum(album), for an album card of the listing shown
openAlbum(album) ==
    /\ \E k \in 1..Len(albums) : albums[k] = album
    /\ GalleryLoad(album.path)

\* the ellipsis of the breadcrumb is clicked
ExpandParts ==
    /\ route = "gallery" /\ hasHiddenParts
    /\ showAllParts' = TRUE
    /\ UNCHANGED <<routeVars, loginVars, isLoading>>
    /\ UNCHANGED <<storeVars, calls, engineVars, restVars>>

\* a refresh that starts whether or not one is running
ReentrantGuard == FALSE

\* refreshFiles: if (isLoading.value) return
RefreshGuard == isLoading

\* refreshFiles up to the await of loadFiles(currentPath); a call made while a
\* refresh is running returns at once
refreshFiles ==
    /\ route = "gallery"
    /\ IF RefreshGuard
       THEN UNCHANGED <<storeVars, calls, engineVars, viewVars>>
       ELSE /\ isLoading' = TRUE
            /\ LoadFilesBegin(currentPath)
            /\ Invoke("list_files", "refreshFiles", NullConfig, currentPath)
            /\ UNCHANGED <<isConnected, isConnecting, error, savedConfig, files,
                           storageType, rootPath, localStorage, engineVars>>
            /\ UNCHANGED <<routeVars, loginVars, showAllParts>>
    /\ UNCHANGED restVars

\* One gallery view over a session on the tree of nested albums: the user logs in
\* and browses by the home button, the breadcrumb, the album cards and refresh.
GalleryNext ==
    \/ \E h \in HostInputs \ {""} : \E u \in UsernameInputs \ {""} : InputEc2(h, u)
    \/ \E k \in KeyFileInputs \ {""} : handlePemFileChange(k)
    \/ handleConnect
    \/ \E c \in InFlight : EngineConnect(c) /\ UNCHANGED <<restVars, viewVars>>
    \/ \E c \in InFlight : ViewConnectReply(c)
    \/ \E c \in InFlight : EngineListAlbums(c) /\ UNCHANGED <<restVars, viewVars>>
    \/ \E c \in InFlight : ViewLoadFilesReply(c)
    \/ goToRoot
    \/ \E index \in 0..MaxDepth : navigateToPath(index)
    \/ \E depth \in 1..MaxDepth : openAlbum(AlbumListing(AlbumPath(depth - 1))[1])
    \/ ExpandParts
    \/ refreshFiles

GallerySpec == Init /\ [][GalleryNext]_vars

-----------------------------------------------------------------------------

\* The store's functions as the views and the tests call them, the continuations of
\* the calls in flight, and the engine answering them.
Next ==
    \/ connectEc2(Ec2Config) /\ UNCHANGED <<afterDisconnect, filterVars, queueVars, cardVars, sideVars>>
    \/ connectGithub(GithubConfig) /\ UNCHANGED <<afterDisconnect, filterVars, queueVars, cardVars, sideVars>>
    \/ \E path \in PathInputs : loadFiles(path) /\ UNCHANGED <<afterDisconnect, filterVars, queueVars, cardVars, sideVars>>
    \/ disconnect /\ UNCHANGED <<afterDisconnect, filterVars, queueVars, cardVars, sideVars>>
    \/ \E c \in InFlight : ConnectReply(c) /\ UNCHANGED <<afterDisconnect, filterVars, queueVars, cardVars, sideVars>>
    \/ \E c \in InFlight : LoadFilesReply(c) /\ UNCHANGED <<afterDisconnect, filterVars, queueVars, cardVars, sideVars>>
    \/ \E c \in InFlight : DisconnectReply(c) /\ UNCHANGED <<afterDisconnect, filterVars, queueVars, cardVars, sideVars>>
    \/ \E c \in InFlight : EngineConnect(c) /\ UNCHANGED <<afterDisconnect, filterVars, queueVars, cardVars, sideVars>>
    \/ \E c \in InFlight : EngineList(c) /\ UNCHANGED <<afterDisconnect, filterVars, queueVars, cardVars, sideVars>>
    \/ \E c \in InFlight : EngineDisconnect(c) /\ UNCHANGED <<afterDisconnect, filterVars, queueVars, cardVars, sideVars>>
    \/ \E c \in InFlight : DisconnectRejected(c) /\ UNCHANGED <<afterDisconnect, filterVars, queueVars, cardVars, sideVars>>

Spec == Init /\ [][Next]_vars

\* Sequences of connect and disconnect calls alone, with the history of which store
\* step came last.
SessionNext ==
    \/ \E config \in Configs : connect(config) /\ afterDisconnect' = FALSE /\ UNCHANGED <<filterVars, queueVars, cardVars, sideVars>>
    \/ disconnect /\ UNCHANGED <<afterDisconnect, filterVars, queueVars, cardVars, sideVars>>
    \/ \E c \in InFlight : ConnectReply(c) /\ afterDisconnect' = FALSE /\ UNCHANGED <<filterVars, queueVars, cardVars, sideVars>>
    \/ \E c \in InFlight : LoadFilesReply(c) /\ afterDisconnect' = FALSE /\ UNCHANGED <<filterVars, queueVars, cardVars, sideVars>>
    \/ \E c \in InFlight : DisconnectReply(c) /\ afterDisconnect' = TRUE /\ UNCHANGED <<filterVars, queueVars, cardVars, sideVars>>
    \/ \E c \in InFlight : EngineConnect(c) /\ UNCHANGED <<afterDisconnect, filterVars, queueVars, cardVars, sideVars>>
    \/ \E c \in InFlight : EngineConnectBare(c) /\ UNCHANGED <<afterDisconnect, filterVars, queueVars, cardVars, sideVars>>
    \/ \E c \in InFlight : EngineList(c) /\ UNCHANGED <<afterDisconnect, filterVars, queueVars, cardVars, sideVars>>
    \/ \E c \in InFlight : EngineDisconnect(c) /\ UNCHANGED <<afterDisconnect, filterVars, queueVars, cardVars, sideVars>>
    \/ \E c \in InFlight : DisconnectRejected(c) /\ UNCHANGED <<afterDisconnect, filterVars, queueVars, cardVars, sideVars>>

SessionSpec == Init /\ [][SessionNext]_vars

-----------------------------------------------------------------------------
(* Properties *)

\* a connect call whose reply is a failure: success:false, or a rejected promise
ConnectFailed(c) ==
    /\ Replied(c, "connect_ec2") \/ Replied(c, "connect_github")
    /\ c.resp.rejected \/ ~c.resp.success

\* the message of a failed connect: response.message, or String(e)
FailureMessage(c) == IF c.resp.rejected THEN c.resp.error ELSE c.resp.message

\* this step is the continuation of call c running to its end
Settles(c) == calls' = calls (-) SetToBag({c})

\* the state disconnect() is to leave
Cleared ==
    /\ isConnected = FALSE
    /\ storageType = Null
    /\ files = <<>>
    /\ currentPath = Slash
    /\ localStorage = NoItem

\* C1: at most one session is live at any time: there is never more than one open
\* backend handle, the open handle is the live session's, and when no session is live
\* no handle is open (a connect issued while a session is live closes the prior
\* handle before the new session exists; nothing leaks).
C1_AtMostOneSession ==
    /\ Cardinality(handles) <= 1
    /\ handles = (IF IsLive(session) THEN {session.handle} ELSE {})

\* C1 witness: a session established by a connect issued while another session was
\* live (its handle is not the first one, which was open then and is closed now).
C1_Witness ==
    /\ IsLive(session)
    /\ session.handle > 1
    /\ handles = {session.handle}

\* no session is live or being established: the store is disconnected, the engine
\* holds no session, and no connect call is under way
NoSessionAnywhere ==
    /\ ~isConnected
    /\ ~IsLive(session)
    /\ \A c \in InFlight : c.cmd \notin {"connect_ec2", "connect_github"}

\* C2: after disconnect has completed and before the next successful connect, no
\* result of the torn-down session is delivered: the store's files stay empty, also
\* when a list request issued before the disconnect answers after it.
C2_NoStaleListing == NoSessionAnywhere => files = <<>>

\* C3: a failed connect leaves no session live: when a connect call ends on a failure
\* reply, error is the failure message and isConnected is false, whatever the state
\* was before the call.
C3_FailedConnectRollsBack ==
    [][\A c \in InFlight :
          (ConnectFailed(c) /\ Settles(c))
              => (error' = FailureMessage(c) /\ isConnected' = FALSE)]_vars

\* C8: credential material is confined to the live session: no persisted item holds
\* the key content, and once the store is disconnected the key is no longer held in
\* savedConfig.
C8_KeyConfined ==
    /\ \A i \in 1..Len(localStorage) : localStorage[i][2] \notin KeyMaterial
    /\ ~isConnected => KeyOf(savedConfig) \notin KeyMaterial

\* C9: after disconnect() completes, from every prior state, isConnected is false,
\* storageType is null, files is empty, currentPath is '/' and the persisted
\* 'image-connection' item is removed.
C9_DisconnectClears ==
    [][\A c \in InFlight : (Replied(c, "disconnect") /\ Settles(c)) => Cleared']_vars

\* C10: disconnect is idempotent: a disconnect() that ends right after another
\* disconnect() ended leaves the store exactly as the first one left it.
C10_DisconnectIdempotent ==
    [][\A c \in InFlight :
          (afterDisconnect /\ Replied(c, "disconnect") /\ Settles(c))
              => UNCHANGED storeVars]_vars

\* caller c's operation has been admitted and is not answered yet
Admitted(c) == c \in QueueSet \cup running \cup waiters

\* this step answers caller c's operation
Answers(c) == req[c] # NoReq /\ req'[c] = NoReq

\* the canonical form of the caller-supplied path p stays under root
Contained(root, p) ==
    LET n == Normalize(p, <<>>) IN n.ok /\ IsPrefix(root, n.path)

\* p has a '..' segment and leaves root
Escapes(root, p) == (\E i \in 1..Len(p) : p[i] = "..") /\ ~Contained(root, p)

\* C4: concurrent thumbnail requests for the same uncached path trigger exactly one
\* read+decode cycle: at no time are two materializations of one path queued or
\* running, and the step that ends the materialization answers every caller whose
\* request for that path is under way, all with the same bytes.
C4_OneDecodePerPath ==
    /\ [](\A p \in ImagePaths :
            Cardinality({c \in QueueSet \cup running : req[c] = ThumbnailReq(p)}) <= 1)
    /\ [][\A c, d \in Callers :
            (/\ req[c].op = "thumbnail" /\ req[d] = req[c]
             /\ Admitted(c) /\ Admitted(d) /\ Answers(c))
                => (Answers(d) /\ results'[d].kind = results'[c].kind
                               /\ results'[d].value = results'[c].value)]_vars

\* C4 witness: two callers asked for the thumbnail of one uncached path at once; one
\* read and decoded it, the other waited, and both hold the same bytes.
C4_Witness ==
    \E c, d \in Callers :
        /\ c # d
        /\ results[c].kind = "ok" /\ results[c].op = "thumbnail"
        /\ results[c].via = "backend"
        /\ results[d].kind = "ok" /\ results[d].op = "thumbnail"
        /\ results[d].via = "waited"
        /\ results[d].value = results[c].value

C7_PathContainment ==
    /\ [](\A c \in QueueSet \cup running :
            ~IsExclusive(c) => (IsLive(session) /\ Contained(session.root, req[c].arg)))
    /\ [][\A c \in Callers :
            (req[c].op = "list" /\ Answers(c)) =>
                /\ results'[c].kind = "ok" =>
                      \A i \in 1..Len(results'[c].value) :
                          /\ IsPrefix(Normalize(req[c].arg, <<>>).path,
                                      results'[c].value[i].path)
                          /\ IsPrefix(session.root, results'[c].value[i].path)
                /\ (IsLive(session) /\ Escapes(session.root, req[c].arg)) =>
                      /\ results'[c].kind = "InvalidPath"
                      /\ results'[c].via = "local"
                      /\ ~Admitted(c)]_vars

\* C7 witness: under the root /home/ubuntu one list was refused with InvalidPath and
\* another was answered with the entries of the directory.
C7_Witness ==
    /\ IsLive(session) /\ session.root = HomeDir
    /\ \E c, d \in Callers :
          /\ results[c].kind = "InvalidPath"
          /\ results[d].kind = "ok" /\ results[d].op = "list"
          /\ results[d].value # <<>>

\* C11: thumbnail is idempotent per path within a session: a thumbnail call answered
\* while the path has a cache entry returns exactly the cached bytes, and an entry is
\* never replaced by other bytes (it only appears, and goes with the session), so
\* all calls from the first cached one on return the same bytes.
C11_ThumbnailIdempotent ==
    /\ [][\A c \in Callers :
            (/\ req[c].op = "thumbnail" /\ Answers(c) /\ IsLive(session)
             /\ Contained(session.root, req[c].arg)
             /\ Normalize(req[c].arg, <<>>).path \in ImagePaths
             /\ cache[Normalize(req[c].arg, <<>>).path] # NoBytes)
                => /\ results'[c].kind = "ok"
                   /\ results'[c].value = cache[Normalize(req[c].arg, <<>>).path]]_vars
    /\ [][\A p \in ImagePaths :
            (cache[p] # NoBytes /\ cache'[p] # NoBytes) => cache'[p] = cache[p]]_vars

\* C11 witness: one caller's thumbnail was decoded, another caller's later call for
\* the path was answered from the cache with the same bytes, and the remote content
\* is no longer the one that was decoded.
C11_Witness ==
    \E c, d \in Callers :
        /\ c # d
        /\ results[c].kind = "ok" /\ results[c].op = "thumbnail"
        /\ results[c].via = "backend"
        /\ results[d].kind = "ok" /\ results[d].op = "thumbnail"
        /\ results[d].via = "cache"
        /\ results[d].value = results[c].value
        /\ results[d].value = cache[CardFile.path]
        /\ results[d].value # Decode(CardFile.path, content)

\* C12: thumbnails exist only for images: the cache holds entries for image paths
\* only; no thumbnail operation for another path is ever queued, running or waited
\* for (no decode is attempted); a thumbnail call for a path under the root that is
\* not an image is answered NotThumbnailable locally; and a card has a thumbnail
\* request under way only for its own file, which is an image.
C12_ThumbnailsOnlyForImages ==
    /\ [](\A p \in FilePaths : cache[p] # NoBytes => p \in ImagePaths)
    /\ [](\A c \in Callers :
            (Admitted(c) /\ req[c].op = "thumbnail")
                => Normalize(req[c].arg, <<>>).path \in ImagePaths)
    /\ [](\A c \in Callers :
            (file[c] # NoFile /\ req[c].op = "thumbnail")
                => (file[c].mimeType \in ImageMimes /\ req[c].arg = file[c].path))
    /\ [][\A c \in Callers :
            (/\ req[c].op = "thumbnail" /\ Answers(c) /\ IsLive(session)
             /\ Contained(session.root, req[c].arg)
             /\ Normalize(req[c].arg, <<>>).path \notin ImagePaths)
                => (results'[c].kind = "NotThumbnailable" /\ results'[c].via = "local")]_vars

\* C12 witness: a caller was refused the thumbnail of a file that is no image, a card
\* shows a file that is no image without a request, and the cache holds the
\* thumbnail of the image.
C12_Witness ==
    /\ cache[CardFile.path] # NoBytes
    /\ \E c, d \in Callers :
          /\ results[c].kind = "NotThumbnailable"
          /\ file[d] \in CardFiles /\ file[d].mimeType \notin ImageMimes
          /\ req[d] = NoReq

\* the engine answers call c in this step with the response resp
EngineAnswers(c, resp) ==
    /\ c \in InFlight /\ c.stage = "sent"
    /\ LET d == [c EXCEPT !.stage = "replied"] @@ [resp |-> resp]
       IN  CopiesIn(d, calls') > CopiesIn(d, calls)

TakesReply(c) ==
    /\ c \in InFlight /\ c.stage = "replied"
    /\ CopiesIn(c, calls') < CopiesIn(c, calls)

\* 4.2 the well-known home directory of a user
WellKnownHome(username) ==
    IF username = "root" THEN <<"root">> ELSE <<"home", username>>

\* C14: root resolution for a remote-filesystem connect: when the store takes a
\* successful connect_ec2 reply, rootPath and the path it lists first are the home
\* directory the response reports, and when it reports none they are '/root' for
\* user root and '/home/<username>' for any other user.
C14_RootResolution ==
    [][\A c \in InFlight :
          (TakesReply(c) /\ c.cmd = "connect_ec2" /\ ~c.resp.rejected /\ c.resp.success)
              => LET root == IF c.resp.root_path # <<>> THEN c.resp.root_path[1]
                             ELSE WellKnownHome(c.config.username)
                 IN  /\ rootPath' = root
                     /\ currentPath' = root
                     /\ \E d \in BagToSet(calls') : Sent(d, "list_files") /\ d.path = root]_vars

\* the filter of the README: directories, images and videos
IsDirImageOrVideo(f) ==
    f.isDir \/ StartsWith(f.mimeType, "image") \/ StartsWith(f.mimeType, "video")

\* C15: media filter: with isMediaOnly off, filteredFiles is files; with it on,
\* filteredFiles is exactly the entries of files that are directories, images
\* ('image/...') or videos ('video/...'), in their original order.
C15_MediaFilter ==
    /\ ~isMediaOnly => filteredFiles = files
    /\ isMediaOnly => filteredFiles = SelectSeq(files, IsDirImageOrVideo)

\* C16: albums and mediaFiles partition filteredFiles: albums is exactly the
\* directory entries, mediaFiles exactly the non-directory entries, no entry is
\* in both, and every entry of filteredFiles is in one of them.
C16_AlbumsMediaPartition ==
    LET Dir(f) == f.isDir
        NotDir(f) == ~f.isDir
        Elems(q) == {q[i] : i \in 1..Len(q)}
    IN  /\ albums = SelectSeq(filteredFiles, Dir)
        /\ mediaFiles = SelectSeq(filteredFiles, NotDir)
        /\ Elems(albums) \cap Elems(mediaFiles) = {}
        /\ Elems(albums) \cup Elems(mediaFiles) = Elems(filteredFiles)
        /\ Len(albums) + Len(mediaFiles) = Len(filteredFiles)

\* the filter is on and hides an entry, and both lists are non-empty
C16_Witness ==
    /\ isMediaOnly
    /\ Len(filteredFiles) < Len(files)
    /\ albums # <<>>
    /\ mediaFiles # <<>>

\* connectEc2 / connectGithub call c returns true in this step: the loadFiles it
\* awaits after a success response finishes
ReturnsTrue(c) ==
    /\ Replied(c, "list_files") /\ c.fn \in {"connectEc2", "connectGithub"}
    /\ Settles(c)

\* C17: when the backend reports success, connectEc2 (resp. connectGithub) returns
\* true and on return isConnected is true, storageType is 'ec2' (resp. 'github'),
\* rootPath is the root_path of the response (the path the call listed), savedConfig
\* is the given config, and that config is stored under 'image-connection'.
C17_ConnectSuccess ==
    [][\A c \in InFlight :
          ReturnsTrue(c)
              => /\ isConnected' = TRUE
                 /\ storageType' = (IF c.fn = "connectEc2" THEN "ec2" ELSE "github")
                 /\ rootPath' = c.path
                 /\ savedConfig' = c.config
                 /\ localStorage' = JSONStringify(c.config)]_vars

\* this step issues exactly one backend call, command cmd with the given config
IssuesOnly(cmd, config) ==
    \E d \in BagToSet(calls') :
        /\ d.cmd = cmd /\ d.stage = "sent" /\ d.config = config
        /\ calls' = calls (+) SetToBag({d})

\* C18: connect(config) dispatches on the storage type: type 'ec2' issues only
\* connect_ec2, type 'github' issues only connect_github, and any other type issues
\* no backend call, sets error to 'Unknown storage type' (and returns false) and
\* leaves isConnected, storageType, rootPath and files unchanged.
C18_ConnectDispatch ==
    [][\A config \in Configs :
          connect(config)
              => /\ config.type = "ec2" => IssuesOnly("connect_ec2", config)
                 /\ config.type = "github" => IssuesOnly("connect_github", config)
                 /\ config.type \notin {"ec2", "github"}
                        => /\ calls' = calls
                           /\ error' = "Unknown storage type"
                           /\ UNCHANGED <<isConnected, storageType, rootPath, files,
                                          session, handles>>]_vars

\* connect was called with an unknown type while the store was connected and showed
\* a listing
C18_Witness ==
    /\ error = "Unknown storage type"
    /\ isConnected /\ storageType = "github"
    /\ files # <<>>
    /\ calls = EmptyBag

\* the loadFiles behind call c finishes in this step
LoadFilesEnds(c) == Replied(c, "list_files") /\ Settles(c)

\* C19: after loadFiles(path) succeeds, currentPath is path and files is the listing
\* the backend returned for path; after it fails, error is the stringified failure.
C19_LoadFilesOutcome ==
    [][\A c \in InFlight :
          LoadFilesEnds(c)
              => IF ~c.resp.rejected
                 THEN currentPath' = c.path /\ files' = c.resp.result
                 ELSE error' = c.resp.error]_vars

\* the loadFiles calls that have started and not finished
LoadFilesInFlight == {c \in InFlight : c.cmd = "list_files"}

\* C20: isLoadingFiles is true exactly while a loadFiles call is in flight: true from
\* the start of a call until that call finishes, and false once no loadFiles call is
\* in flight, whether the call succeeded or failed.
C20_LoadingFlag == isLoadingFiles <=> LoadFilesInFlight # {}

\* caller c is answered a read in this step
ReadAnswered(c) ==
    /\ results'[c] # results[c]
    /\ results'[c].kind # "none" /\ results'[c].op = "read"
    /\ UNCHANGED <<req, session, queue, running>>
    /\ \A d \in Callers \ {c} : results'[d] = results[d]

\* C21: large-object materialization happens at most once per object: the first
\* successful read of a large-object pointer fetches the real object before
\* returning the bytes, and every later read of the same path in the mirror
\* returns the bytes without fetching from the remote again.
C21_MaterializedOnce ==
    /\ [](\A p \in Pointers : fetches[p] <= 1)
    /\ [][\A c \in Callers : \A p \in Pointers :
            (ReadAnswered(c) /\ results'[c].kind = "ok" /\ results'[c].value = Bytes(p)
                /\ session.kind = "github")
                => IF p \in materialized
                   THEN UNCHANGED fetches /\ results'[c].via # "fetched"
                   ELSE /\ fetches'[p] = fetches[p] + 1
                        /\ p \in materialized'
                        /\ results'[c].via = "fetched"]_vars

\* a large object was fetched by a first read, and a later read of it was
\* answered from the mirror
C21_Witness ==
    \E p \in Pointers : \E c, d \in Callers :
        /\ fetches[p] = 1 /\ p \in materialized
        /\ results[c] = Answer("read", "ok", Bytes(p), "fetched", FALSE)
        /\ results[d] = Answer("read", "ok", Bytes(p), "backend", FALSE)
        /\ IsLive(session) /\ session.kind = "github"

\* the form of the selected storage type is complete
FormComplete ==
    IF formType = "ec2"
    THEN "" \notin {ec2Form.host, ec2Form.username, ec2Form.pemContent}
    ELSE "" \notin {githubForm.repoUrl, githubForm.username, githubForm.sshKeyContent}

\* C22: the Connect button of the login view is enabled only when the form of the
\* selected storage type is complete (EC2: host, username and key; GitHub:
\* repository URL, username and key) and isConnecting is false; otherwise it is
\* disabled.
C22_ConnectButton ==
    route = "login" => (~ConnectDisabled <=> (FormComplete /\ ~isConnecting))

\* the GitHub form is complete and a connect it started is in flight: the button
\* is disabled
C22_Witness ==
    /\ route = "login" /\ formType = "github" /\ FormComplete
    /\ isConnecting /\ ConnectDisabled
    /\ ec2Form # EmptyEc2Form

\* the connect calls that have started and not returned
ConnectsInFlight ==
    {c \in InFlight : c.fn \in {"connectEc2", "connectGithub"}}

\* C23: at most one connect call is in flight at any time: while isConnecting is
\* true no further connect can be started from the login view, neither by the
\* Connect button nor by the saved-connection button, so isConnecting is true
\* exactly while a connect is in flight.
C23_OneConnectInFlight ==
    /\ \A c \in ConnectsInFlight : CopiesIn(c, calls) = 1
    /\ Cardinality(ConnectsInFlight) <= 1
    /\ isConnecting <=> ConnectsInFlight # {}

\* C24: when several loadFiles calls overlap and their responses arrive in any
\* order, then once all of them have completed files is the listing of
\* currentPath, the most recently requested path: the loadFiles that completes
\* last with a listing is the one for currentPath.
C24_LatestListingWins ==
    [][\A c \in InFlight :
          (/\ LoadFilesEnds(c) /\ ~c.resp.rejected
           /\ \A d \in BagToSet(calls') : d.cmd # "list_files")
              => /\ files' = c.resp.result
                 /\ c.path = currentPath']_vars

\* C25: route guard: every navigation to the gallery or viewer route while
\* isConnected is false ends on the login route, every navigation to the login
\* route while isConnected is true ends on the gallery route, and any unknown path
\* redirects to login (and ends where a navigation to login ends); every other
\* navigation ends on the route it asks for.
C25_RouteGuard ==
    [][\A to \in Locations :
          Go(to)
              => LET asked == IF to = "unknown" THEN "login" ELSE to
                 IN  route' = CASE asked \in {"gallery", "viewer"} /\ ~isConnected -> "login"
                                [] asked = "login" /\ isConnected -> "gallery"
                                [] OTHER -> asked]_vars

\* the viewer route was entered while connected
C25_Witness == isConnected /\ route = "viewer" /\ calls = EmptyBag

\* C26: logout always completes: after handleLogout finishes, whether or not the
\* backend disconnect call succeeded, the store reports isConnected false and the
\* current route is the login route.
C26_LogoutCompletes ==
    [][\A c \in InFlight :
          (Replied(c, "disconnect") /\ Settles(c))
              => isConnected' = FALSE /\ route' = "login"]_vars

\* the gallery hands path d.path to loadFiles in this step
GalleryLoads(d) ==
    /\ d.cmd = "list_files" /\ d.stage = "sent" /\ d.fn \in {"loadFiles", "refreshFiles"}
    /\ CopiesIn(d, calls') > CopiesIn(d, calls)

\* C27: browsing never leaves the session root: every path the gallery passes to
\* loadFiles (home button, breadcrumb segment, opened album, refresh) is rootPath
\* or a descendant of rootPath.
C27_BrowsingUnderRoot ==
    [][\A d \in BagToSet(calls') : GalleryLoads(d) => IsPrefix(rootPath, d.path)]_vars

\* C28: breadcrumb navigation loads the path of the clicked segment: for every
\* currentPath and every visible breadcrumb index i, with or without hidden leading
\* segments, navigateToPath(i) calls loadFiles with '/' plus the segments of
\* currentPath up to and including the segment displayed at position i.
C28_BreadcrumbPath ==
    [][\A index \in 0..MaxDepth :
          navigateToPath(index)
              => LET parts == currentPathParts
                     shown == IF Len(parts) > 4 /\ ~showAllParts THEN 4 ELSE Len(parts)
                     upTo == Len(parts) - shown + index + 1
                 IN  /\ index < shown
                     /\ parts[upTo] = visiblePathParts[index + 1]
                     /\ \E d \in BagToSet(calls') :
                           /\ GalleryLoads(d)
                           /\ d.path = SubSeq(parts, 1, upTo)
                           /\ calls' = calls (+) SetToBag({d})]_vars

\* a breadcrumb with hidden leading segments was clicked at its first visible
\* segment: of the six segments of the path the first three were loaded
C28_Witness ==
    /\ route = "gallery"
    /\ currentPath = AlbumPath(MaxDepth - 3)
    /\ \E d \in InFlight : d.cmd = "list_files" /\ d.path = AlbumPath(MaxDepth)
    /\ \E d \in InFlight : d.cmd = "list_files" /\ d.path = AlbumPath(MaxDepth - 3)

RefreshesInFlight == {d \in InFlight : d.fn = "refreshFiles"}

\* C29: refreshFiles is not re-entrant: while a refresh is in flight a further
\* refreshFiles call issues no list request, and the view's isLoading flag is false
\* again after every refresh finishes, whether the listing succeeded or failed.
C29_RefreshNotReentrant ==
    /\ [](\A d \in RefreshesInFlight : CopiesIn(d, calls) = 1 /\ Cardinality(RefreshesInFlight) = 1)
    /\ [][(refreshFiles /\ RefreshesInFlight # {}) => calls' = calls]_vars
    /\ [][\A d \in RefreshesInFlight : LoadFilesEnds(d) => ~isLoading']_vars
    /\ [](route = "gallery" /\ RefreshesInFlight = {} => ~isLoading)

\* a refresh is in flight at the same time as another listing of the gallery
C29_Witness ==
    /\ route = "gallery"
    /\ isLoading
    /\ \E d \in RefreshesInFlight : d.stage = "replied" /\ d.resp.rejected
    /\ \E d \in InFlight : d.fn = "loadFiles"

----------------------------------------------------------------------------
\* The viewer: the file opened from the gallery and the navigation between the
\* media files of the listing.

\* list_files on a directory of files: the entries of the directory, whatever they are
EngineListMedia(c) ==
    /\ Sent(c, "list_files")
    /\ IF ~IsLive(session) THEN Reply(c, Rejected("NoActiveSession"))
       ELSE \/ \E fs \in FilesInputs : Reply(c, [rejected |-> FALSE, result |-> fs])
            \/ Reply(c, Rejected("RemoteListFailed"))
    /\ UNCHANGED <<storeVars, engineVars>>

\* parseInt(route.query.index as string) || 0
fileIndex ==
    LET parsed == parseInt(query)
    IN  IF parsed = NaN \/ parsed = 0 THEN 0 ELSE parsed

hasNavigation == Len(mediaFiles) > 1

\* the media card at position index (from 0) of the gallery is clicked
openFile(index) ==
    /\ route = "gallery"
    /\ index \in 0..(Len(mediaFiles) - 1)
    /\ LET mime == mediaFiles[index + 1].mimeType
       IN  IF StartsWith(mime, "image") \/ StartsWith(mime, "video")
           THEN Push("viewer", isConnected, toString(index))
           ELSE UNCHANGED viewVars
    /\ UNCHANGED <<storeVars, calls, engineVars, restVars>>

NextNoWrap(currentIndex, length) == currentIndex + 1

prevIndex(currentIndex, length) == IF currentIndex > 0 THEN currentIndex - 1 ELSE length - 1

nextIndex(currentIndex, length) == IF currentIndex < length - 1 THEN currentIndex + 1 ELSE 0

\* router.replace to the file at position target; reading a member of files[target]
\* throws when there is no such file, before the router is called
ReplaceWith(target) ==
    /\ IF ~hasNavigation \/ target \notin 0..(Len(mediaFiles) - 1)
       THEN UNCHANGED viewVars
       ELSE Push("viewer", isConnected, toString(target))
    /\ UNCHANGED <<storeVars, calls, engineVars, restVars>>

navigatePrev ==
    /\ route = "viewer"
    /\ ReplaceWith(prevIndex(fileIndex, Len(mediaFiles)))

navigateNext ==
    /\ route = "viewer"
    /\ ReplaceWith(nextIndex(fileIndex, Len(mediaFiles)))

\* router.back(): the viewer was pushed from the gallery
goBack ==
    /\ route = "viewer"
    /\ Push("gallery", isConnected, NoIndex)
    /\ UNCHANGED <<storeVars, calls, engineVars, restVars>>

ViewerNext ==
    \/ \E h \in HostInputs \ {""} : \E u \in UsernameInputs \ {""} : InputEc2(h, u)
    \/ \E k \in KeyFileInputs \ {""} : handlePemFileChange(k)
    \/ handleConnect
    \/ \E c \in InFlight : EngineConnect(c) /\ UNCHANGED <<restVars, viewVars>>
    \/ \E c \in InFlight : ViewConnectReply(c)
    \/ \E c \in InFlight : EngineListMedia(c) /\ UNCHANGED <<restVars, viewVars>>
    \/ \E c \in InFlight : ViewLoadFilesReply(c)
    \/ route = "gallery" /\ toggleMediaOnly
    \/ \E index \in 0..MaxFiles : openFile(index)
    \/ navigatePrev
    \/ navigateNext
    \/ goBack

ViewerSpec == Init /\ [][ViewerNext]_vars

\* the viewer shows one of n > 1 media files, at an index in 0..n-1
CanNavigate ==
    /\ route = "viewer"
    /\ hasNavigation
    /\ fileIndex \in 0..(Len(mediaFiles) - 1)

\* C30: viewer navigation wraps and stays in range: with n > 1 media files and
\* current index i in 0..n-1, navigateNext goes to index (i+1) mod n and navigatePrev
\* to (i-1) mod n, the target index is always in 0..n-1, and navigateNext followed by
\* navigatePrev returns to i; with n <= 1 both do nothing.
C30_ViewerNavigation ==
    /\ [](CanNavigate
            => LET n == Len(mediaFiles)
                   i == fileIndex
               IN  /\ ENABLED (navigateNext /\ parseInt(query') = (i + 1) % n)
                   /\ ENABLED (navigatePrev /\ parseInt(query') = (i + n - 1) % n)
                   /\ prevIndex((i + 1) % n, n) = i)
    /\ [][((navigateNext \/ navigatePrev) /\ CanNavigate)
             => /\ route' = "viewer"
                /\ parseInt(query') \in 0..(Len(mediaFiles) - 1)
                /\ parseInt(query') \in {(fileIndex + 1) % Len(mediaFiles),
                                         (fileIndex + Len(mediaFiles) - 1) % Len(mediaFiles)}
                /\ UNCHANGED <<storeVars, isMediaOnly>>]_vars
    /\ [][((navigateNext \/ navigatePrev) /\ Len(mediaFiles) <= 1) => UNCHANGED vars]_vars

\* the viewer shows the last of MaxFiles files, a document the gallery does not
\* open: the index was reached by navigation
C30_Witness ==
    /\ route = "viewer"
    /\ Len(mediaFiles) = MaxFiles
    /\ fileIndex = MaxFiles - 1
    /\ mediaFiles[MaxFiles].mimeType = "application/pdf"

=============================================================================
